---- MODULE Spec2Model ----
(***************************************************************************)
(* Coxeter groups as matrix groups (sage.groups.matrix_gps.coxeter_group)  *)
(* and the category of regular supercrystals.                              *)
(*                                                                         *)
(* Python lists, tuples and matrices are functions over 0..n-1, so that    *)
(* positions in the model are the positions of the source.                 *)
(***************************************************************************)
EXTENDS Integers, Sequences, FiniteSets, TLC

VARIABLES cache, heap, last, elt, crystal

vars == <<cache, heap, last, elt, crystal>>

----------------------------------------------------------------------------
(* Tuples and small helpers                                                *)

Idx(n) == 0 .. (n - 1)

Size(f) == Cardinality(DOMAIN f)

Tup(s) == [k \in Idx(Len(s)) |-> s[k + 1]]

RangeOf(f) == {f[x] : x \in DOMAIN f}

MaxOf(S) == CHOOSE x \in S : \A y \in S : y <= x

MinOf(S) == CHOOSE x \in S : \A y \in S : x <= y

Abs(x) == IF x < 0 THEN -x ELSE x

RECURSIVE Gcd(_, _)
Gcd(a, b) == IF b = 0 THEN Abs(a) ELSE Gcd(b, a % Abs(b))

\* sorted(S) for a set of integers, as a 0-based tuple
SortedTuple(S) ==
    [k \in Idx(Cardinality(S)) |->
        CHOOSE x \in S : Cardinality({y \in S : y < x}) = k]

\* s[k] of s = sorted(f.values()), 0 <= k < len(s)
NthSmallest(f, k) ==
    CHOOSE x \in RangeOf(f) :
        /\ Cardinality({d \in DOMAIN f : f[d] < x}) <= k
        /\ k < Cardinality({d \in DOMAIN f : f[d] <= x})

\* s[-k] of s = sorted(f.values()), 1 <= k <= len(s)
NthLargest(f, k) == NthSmallest(f, Size(f) - k)

\* tuple.index(x): the first position holding x
IndexOf(t, x) == MinOf({k \in DOMAIN t : t[k] = x})

\* the function f on D, with every value computed once
RECURSIVE Tabulate(_, _)
Tabulate(f, D) ==
    IF D = {} THEN <<>>
    ELSE LET d == CHOOSE x \in D : TRUE IN (d :> f[d]) @@ Tabulate(f, D \ {d})

RECURSIVE SumOver(_, _)
SumOver(f, D) ==
    IF D = {} THEN 0
    ELSE LET d == CHOOSE x \in D : TRUE IN f[d] + SumOver(f, D \ {d})

----------------------------------------------------------------------------
(* The coefficient domain.  An element is (p + q * 2cos(pi/m)) / d with    *)
(* integers p, q, d > 0 and a label m >= 4 (m = 0 when q = 0): the values  *)
(* 2cos(pi/m) for m >= 4 are irrational numbers strictly between 1 and 2.  *)

Rat(p, d) == [p |-> p, q |-> 0, m |-> 0, d |-> d]

RInt(p) == Rat(p, 1)

RZero == RInt(0)

ROne == RInt(1)

TwoCos(x) == [p |-> 0, q |-> 1, m |-> x, d |-> 1]

RNorm(p, q, m, d) ==
    LET s == IF d < 0 THEN -1 ELSE 1
        g == Gcd(Gcd(p, q), d)
    IN  [p |-> (s * p) \div g, q |-> (s * q) \div g,
         m |-> IF q = 0 THEN 0 ELSE m, d |-> (s * d) \div g]

\* defined when the two elements share their irrational part
RAdd(x, y) ==
    CASE x.p = 0 /\ x.q = 0 -> y
      [] y.p = 0 /\ y.q = 0 -> x
      [] x.q = 0 \/ y.q = 0 \/ x.m = y.m ->
        RNorm(x.p * y.d + y.p * x.d, x.q * y.d + y.q * x.d,
              IF x.q # 0 THEN x.m ELSE y.m, x.d * y.d)

RNeg(x) == [x EXCEPT !.p = -x.p, !.q = -x.q]

\* x / k for an integer k # 0
RDivInt(x, k) == RNorm(x.p, x.q, x.m, x.d * k)

\* defined when one factor is rational
RMul(x, y) ==
    CASE x.q = 0 -> RNorm(x.p * y.p, x.p * y.q, y.m, x.d * y.d)
      [] y.q = 0 -> RNorm(x.p * y.p, y.p * x.q, x.m, x.d * y.d)

\* x <= 0, decided from 1 < 2cos(pi/m) < 2
RLeqZero(x) ==
    CASE x.q = 0 -> x.p <= 0
      [] x.q > 0 /\ x.p + 2 * x.q <= 0 -> TRUE
      [] x.q > 0 /\ x.p + x.q >= 0 -> FALSE
      [] x.q < 0 /\ x.p + x.q <= 0 -> TRUE
      [] x.q < 0 /\ x.p + 2 * x.q >= 0 -> FALSE

RLeq(x, y) == RLeqZero(RAdd(x, RNeg(y)))

----------------------------------------------------------------------------
(* Matrices                                                                *)

NRows(M) == Size(M)

IsSquare(M) == \A i \in DOMAIN M : DOMAIN M[i] = DOMAIN M

\* MS.one()
OneMatrix(n) == [i \in Idx(n) |-> [j \in Idx(n) |-> IF i = j THEN ROne ELSE RZero]]

MatAdd(A, B) == [i \in DOMAIN A |-> [j \in DOMAIN A |-> RAdd(A[i][j], B[i][j])]]

RECURSIVE RSum(_, _)
RSum(f, D) ==
    IF D = {} THEN RZero
    ELSE LET d == CHOOSE x \in D : TRUE IN RAdd(f[d], RSum(f, D \ {d}))

MatMul(A, B) ==
    [i \in DOMAIN A |-> [j \in DOMAIN A |->
        RSum([k \in DOMAIN A |-> RMul(A[i][k], B[k][j])], DOMAIN A)]]

Column(A, c) == [r \in DOMAIN A |-> A[r][c]]

----------------------------------------------------------------------------
(* CoxeterMatrixGroup.__init__: generators and bilinear form               *)

\* the same with the value of the label 2 for the label 3
CosOfThreeAsTwo(x) ==
    CASE x = 1 -> RInt(-2)
      [] x \in {2, 3} -> RZero
      [] x >= 4 -> TwoCos(x)

\* 2cos(pi/x) for a Coxeter matrix entry x >= 1
TwoCosPiOver(x) ==
    CASE x = 1 -> RInt(-2)
      [] x = 2 -> RZero
      [] x = 3 -> ROne
      [] x >= 4 -> TwoCos(x)

\* val: -1 represents infinity
Val(x) == IF x # -1 THEN TwoCosPiOver(x) ELSE RInt(2)

\* whether base_ring(v) succeeds: the rationals hold no irrational value
Coerces(base_ring, v) == base_ring = "QQ" => v.q = 0

\* the same with the entries (j, i)
GenEntriesColumn(coxeter_matrix, i) ==
    [r \in DOMAIN coxeter_matrix |-> [c \in DOMAIN coxeter_matrix |->
        IF c = i THEN Val(coxeter_matrix[r][i]) ELSE RZero]]

\* MC(MS, entries={(i, j): val(coxeter_matrix[i, j]) for j in range(n)})
GenEntries(coxeter_matrix, i) ==
    [r \in DOMAIN coxeter_matrix |-> [c \in DOMAIN coxeter_matrix |->
        IF r = i THEN Val(coxeter_matrix[i][c]) ELSE RZero]]

\* the same without MS.one()
GensWithoutOne(coxeter_matrix) ==
    [i \in DOMAIN coxeter_matrix |-> GenEntries(coxeter_matrix, i)]

Gens(coxeter_matrix) ==
    [i \in DOMAIN coxeter_matrix |->
        MatAdd(OneMatrix(NRows(coxeter_matrix)), GenEntries(coxeter_matrix, i))]

\* the same with val / base_ring(2)
BilinearHalf(coxeter_matrix) ==
    [i \in DOMAIN coxeter_matrix |-> [j \in DOMAIN coxeter_matrix |->
        RDivInt(Val(coxeter_matrix[i][j]), 2)]]

\* self._bilinear: entries val / base_ring(-2) wherever the label is not 2
Bilinear(coxeter_matrix) ==
    [i \in DOMAIN coxeter_matrix |-> [j \in DOMAIN coxeter_matrix |->
        IF coxeter_matrix[i][j] # 2
        THEN RDivInt(Val(coxeter_matrix[i][j]), -2)
        ELSE RZero]]

----------------------------------------------------------------------------
(* CoxeterMatrixGroup.__init__: the finiteness test                        *)

\* adjmat: an edge wherever the label is not 1 or 2
Adjacent(coxeter_matrix, i, j) == coxeter_matrix[i][j] \notin {1, 2}

Neighbours(coxeter_matrix, S, V) ==
    {j \in V : \E i \in S : Adjacent(coxeter_matrix, i, j)}

RECURSIVE Reachable(_, _, _)
Reachable(coxeter_matrix, S, V) ==
    LET T == S \cup Neighbours(coxeter_matrix, S, V)
    IN  IF T = S THEN S ELSE Reachable(coxeter_matrix, T, V)

\* G.connected_components(), each component as a sorted list
ConnectedComponents(coxeter_matrix) ==
    {SortedTuple(Reachable(coxeter_matrix, {v}, DOMAIN coxeter_matrix)) :
        v \in DOMAIN coxeter_matrix}

RECURSIVE BfsDepth(_, _, _, _, _)
BfsDepth(coxeter_matrix, V, seen, v, d) ==
    IF v \in seen THEN d
    ELSE BfsDepth(coxeter_matrix, V,
                  seen \cup Neighbours(coxeter_matrix, seen, V), v, d + 1)

\* the distance of u and v in the subgraph on V (connected)
Distance(coxeter_matrix, V, u, v) == BfsDepth(coxeter_matrix, V, {u}, v, 0)

\* G0.eccentricity(with_labels=True)
Eccentricity(coxeter_matrix, V) ==
    Tabulate([v \in V |-> MaxOf({Distance(coxeter_matrix, V, v, u) : u \in V})], V)

\* G0.diameter()
Diameter(coxeter_matrix, V) == MaxOf(RangeOf(Eccentricity(coxeter_matrix, V)))

\* G0.is_tree(): connected with one edge less than vertices
IsTree(coxeter_matrix, V) ==
    Cardinality({e \in V \X V : e[1] < e[2] /\ Adjacent(coxeter_matrix, e[1], e[2])})
        = Cardinality(V) - 1

\* G0.shortest_path(a, b) as a 1-based sequence
RECURSIVE ShortestPath(_, _, _, _)
ShortestPath(coxeter_matrix, V, a, b) ==
    IF a = b THEN <<a>>
    ELSE LET nxt == CHOOSE x \in V :
                       /\ Adjacent(coxeter_matrix, a, x)
                       /\ Distance(coxeter_matrix, V, x, b)
                            = Distance(coxeter_matrix, V, a, b) - 1
         IN  <<a>> \o ShortestPath(coxeter_matrix, V, nxt, b)

\* the vertex of ecc[-k] for ecc = sorted((e, v) for (v, e) in eccentricity)
EccEnd(ecc, k) ==
    CHOOSE v \in DOMAIN ecc :
        Cardinality({w \in DOMAIN ecc :
            ecc[w] > ecc[v] \/ (ecc[w] = ecc[v] /\ w > v)}) = k - 1

\* the same with the test of l == 2: every label positive
Rank3AnyPositive(coxeter_matrix, comp) ==
    /\ coxeter_matrix[comp[0]][comp[1]] > 0
    /\ coxeter_matrix[comp[0]][comp[2]] > 0
    /\ coxeter_matrix[comp[1]][comp[2]] > 0

\* the same without the test s[0] == 2
Rank3AnyLeast(coxeter_matrix, comp) ==
    LET u == Tup(<<coxeter_matrix[comp[0]][comp[1]], coxeter_matrix[comp[0]][comp[2]],
                   coxeter_matrix[comp[1]][comp[2]]>>)
    IN  NthSmallest(u, 1) = 3 /\ NthSmallest(u, 2) \in {3, 4, 5}

\* l == 3
FiniteRank3(coxeter_matrix, comp) ==
    LET c0 == comp[0]
        c1 == comp[1]
        c2 == comp[2]
        u == Tup(<<coxeter_matrix[c0][c1], coxeter_matrix[c0][c2],
                   coxeter_matrix[c1][c2]>>)
    IN  /\ NthSmallest(u, 0) = 2
        /\ NthSmallest(u, 1) = 3
        /\ NthSmallest(u, 2) \in {3, 4, 5}

\* l == 4
FiniteRank4(coxeter_matrix, comp) ==
    LET c0 == comp[0]
        c1 == comp[1]
        c2 == comp[2]
        c3 == comp[3]
        u == Tup(<<coxeter_matrix[c0][c1], coxeter_matrix[c0][c2],
                   coxeter_matrix[c0][c3], coxeter_matrix[c1][c2],
                   coxeter_matrix[c1][c3], coxeter_matrix[c2][c3]>>)
        s == [k \in Idx(6) |-> NthSmallest(u, k)]
        u0 == u[0] + u[1] + u[2]
        u1 == u[0] + u[3] + u[4]
        u2 == u[1] + u[3] + u[5]
        u3 == u[2] + u[4] + u[5]
        uu == Tup(<<u0, u1, u2, u3>>)
        ss == [k \in Idx(4) |-> NthSmallest(uu, k)]
    IN  /\ [k \in Idx(5) |-> s[k]] = Tup(<<2, 2, 2, 3, 3>>)
        /\ \/ s[5] = 3
           \/ /\ s[5] \in {4, 5}
              /\ ss \in {Tup(<<7, 7, 9, 9>>), Tup(<<7, 8, 8, 9>>),
                         Tup(<<7, 8, 9, 10>>)}

\* l >= 5, some label above 3
FiniteLargeLabelled(coxeter_matrix, comp, mentries) ==
    LET l == Size(comp)
        V == RangeOf(comp)
        ecc == Eccentricity(coxeter_matrix, V)
        left_end == EccEnd(ecc, 1)
        right_end == EccEnd(ecc, 2)
        shortest_path == ShortestPath(coxeter_matrix, V, left_end, right_end)
        left_almost_end == shortest_path[2]
        right_almost_end == shortest_path[Len(shortest_path) - 1]
    IN  IF NthLargest(mentries, 2) > 3 THEN FALSE
        ELSE IF NthLargest(mentries, 1) > 4 THEN FALSE
        ELSE IF Diameter(coxeter_matrix, V) # l - 1 THEN FALSE
        ELSE \/ coxeter_matrix[left_end][left_almost_end] = 4
             \/ coxeter_matrix[right_end][right_almost_end] = 4

\* l >= 5, only 2's and 3's
FiniteLargeSimplyLaced(coxeter_matrix, comp) ==
    LET l == Size(comp)
        V == RangeOf(comp)
        ecc == Eccentricity(coxeter_matrix, V)
    IN  IF ~IsTree(coxeter_matrix, V) THEN FALSE
        ELSE \/ NthLargest(ecc, 1) = l - 1
             \/ NthLargest(ecc, 3) = l - 2
             \/ (l <= 8 /\ NthLargest(ecc, 2) = l - 2 /\ NthLargest(ecc, 5) = l - 3)

\* l >= 5
FiniteLarge(coxeter_matrix, comp) ==
    LET l == Size(comp)
        mentries == [e \in {e \in Idx(l) \X Idx(l) : e[1] < e[2]} |->
                        coxeter_matrix[comp[e[1]]][comp[e[2]]]]
    IN  IF NthSmallest(mentries, 0) < 0 THEN FALSE
        ELSE IF NthLargest(mentries, 1) > 3
             THEN FiniteLargeLabelled(coxeter_matrix, comp, mentries)
             ELSE FiniteLargeSimplyLaced(coxeter_matrix, comp)

\* one pass of the loop over comps: whether comp is one of the ABDEFHI graphs
ComponentFinite(coxeter_matrix, comp) ==
    CASE Size(comp) = 1 -> TRUE
      [] Size(comp) = 2 -> coxeter_matrix[comp[0]][comp[1]] > 0
      [] Size(comp) = 3 -> FiniteRank3(coxeter_matrix, comp)
      [] Size(comp) = 4 -> FiniteRank4(coxeter_matrix, comp)
      [] OTHER -> FiniteLarge(coxeter_matrix, comp)

\* finite: the loop leaves it True iff no component fails
Finite(coxeter_matrix) ==
    \A comp \in ConnectedComponents(coxeter_matrix) :
        ComponentFinite(coxeter_matrix, comp)

\* whether __init__ raises: a value the base ring cannot hold
InitRaises(coxeter_matrix, base_ring) ==
    \E i, j \in DOMAIN coxeter_matrix : ~Coerces(base_ring, Val(coxeter_matrix[i][j]))

\* the object __init__ leaves
NewGroup(coxeter_matrix, base_ring, index_set) ==
    [_matrix |-> coxeter_matrix,
     _index_set |-> index_set,
     base_ring |-> base_ring,
     gens |-> Gens(coxeter_matrix),
     _bilinear |-> Bilinear(coxeter_matrix),
     finite |-> Finite(coxeter_matrix)]


----------------------------------------------------------------------------
(* CoxeterMatrixGroup.__classcall_private__: normalising the arguments     *)

\* edge labels of a diagram graph: None, infinity, or an integer
NoLabel == [kind |-> "None", val |-> 0]

Infinity == [kind |-> "oo", val |-> 0]

IntLabel(k) == [kind |-> "int", val |-> k]

Fail(msg) == [ok |-> FALSE, err |-> msg]

\* data.is_symmetric()
IsSymmetric(data) ==
    IsSquare(data) /\ \A i, j \in DOMAIN data : data[i][j] = data[j][i]

\* any(d != 1 for d in data.diagonal())
BadDiagonal(data) == \E i \in DOMAIN data : data[i][i] # 1

\* the same with val <= 0
LabelBelowOne(data) ==
    \E i, j \in DOMAIN data : j >= i + 1 /\ data[i][j] <= 0 /\ data[i][j] # -1

\* any(val <= 1 and val != -1 for i, row in enumerate(data.rows()) for val in row[i+1:])
BadLabel(data) ==
    \E i, j \in DOMAIN data : j >= i + 1 /\ data[i][j] <= 1 /\ data[i][j] # -1

\* the else branch: data is a matrix
NormalizeMatrix(data, index_set) ==
    IF ~IsSymmetric(data) THEN Fail("ValueError: the Coxeter matrix is not symmetric")
    ELSE IF BadDiagonal(data) THEN Fail("ValueError: the Coxeter matrix diagonal is not all 1")
    ELSE IF BadLabel(data) THEN Fail("ValueError: invalid Coxeter label")
    ELSE [ok |-> TRUE, err |-> "", data |-> data,
          index_set |-> IF index_set = {} THEN [k \in Idx(NRows(data)) |-> k]
                        ELSE CHOOSE t \in index_set : TRUE]

\* whether the loop over G.edges() raises on the label m
GraphLabelRaises(m) == m.kind = "int" /\ m.val # -1 /\ m.val <= 1

\* the Coxeter matrix entry the loop over G.edges() writes for the label m
GraphLabel(m) ==
    IF m.kind = "None" THEN 3
    ELSE IF m.kind = "oo" \/ m.val = -1 THEN -1
    ELSE m.val

\* the matrix the Graph branch builds: all 2, 1 on the diagonal, then the edges
GraphMatrix(G) ==
    LET n == Cardinality(G.verts)
        verts == SortedTuple(G.verts)
    IN  [i \in Idx(n) |-> [j \in Idx(n) |->
            IF i = j THEN 1
            ELSE IF <<verts[i], verts[j]>> \in DOMAIN G.edges
                 THEN GraphLabel(G.edges[<<verts[i], verts[j]>>])
            ELSE IF <<verts[j], verts[i]>> \in DOMAIN G.edges
                 THEN GraphLabel(G.edges[<<verts[j], verts[i]>>])
            ELSE 2]]

\* the Graph branch
NormalizeGraph(G, index_set) ==
    IF \E e \in DOMAIN G.edges : GraphLabelRaises(G.edges[e])
    THEN Fail("ValueError: invalid Coxeter graph label")
    ELSE [ok |-> TRUE, err |-> "", data |-> GraphMatrix(G),
          index_set |-> IF index_set = {} THEN SortedTuple(G.verts)
                        ELSE CHOOSE t \in index_set : TRUE]

\* the same without the default
KeepRing(base_ring) == base_ring

\* if base_ring is None: base_ring = UniversalCyclotomicField()
NormalizeRing(base_ring) == IF base_ring = "None" THEN "UCF" ELSE base_ring

Normalize(form, data, index_set) ==
    IF form = "graph" THEN NormalizeGraph(data, index_set)
    ELSE NormalizeMatrix(data, index_set)

\* the arguments handed to __classcall__
CacheKey(data, base_ring, index_set) == <<data, base_ring, index_set>>

----------------------------------------------------------------------------
(* Queries                                                                 *)

\* the positions (i, j), j > i, at which coxeter_graph adds an edge
GraphEdgePositions(W) ==
    {e \in (DOMAIN W._matrix) \X (DOMAIN W._matrix) :
        e[1] < e[2] /\ (W._matrix[e[1]][e[2]] >= 3 \/ W._matrix[e[1]][e[2]] = -1)}

\* the label coxeter_graph gives the edge for the matrix entry val
EdgeLabel(val) ==
    IF val = 3 THEN NoLabel
    ELSE IF val > 3 THEN IntLabel(val)
    ELSE Infinity

\* coxeter_graph raises when self._index_set[k] is out of range
CoxeterGraphRaises(W) ==
    \E e \in GraphEdgePositions(W) : e[2] \notin DOMAIN W._index_set

\* coxeter_graph: the vertices are the index set; a later add_edge on the
\* same two vertices replaces the label, an edge from a vertex to itself
\* is not added
CoxeterGraph(W) ==
    LET I == W._index_set
        pos == GraphEdgePositions(W)
        ends(e) == IF I[e[1]] < I[e[2]] THEN <<I[e[1]], I[e[2]]>>
                   ELSE <<I[e[2]], I[e[1]]>>
        pairs == {ends(e) : e \in {x \in pos : I[x[1]] # I[x[2]]}}
        lastPos(pr) ==
            CHOOSE e \in pos :
                /\ ends(e) = pr
                /\ \A f \in pos : ends(f) = pr =>
                      (f[1] < e[1] \/ (f[1] = e[1] /\ f[2] <= e[2]))
    IN  [verts |-> RangeOf(I),
         edges |-> [pr \in pairs |->
                      EdgeLabel(W._matrix[lastPos(pr)[1]][lastPos(pr)[2]])]]

\* Element.has_right_descent: all(x <= 0 for x in col)
AllNonPositive(col) == \A r \in DOMAIN col : RLeqZero(col[r])


----------------------------------------------------------------------------
(* Bounds and the inputs drawn                                             *)

\* objects kept alive in one session
MaxObjects == 2

\* every Coxeter matrix up to this size is classified
FullN == 3

\* finite labels run from 2 to MaxLabel; -1 stands for infinity
MaxLabel == 5

\* tree-shaped diagrams with one changed entry are classified up to this size
TreeN == 6

\* matrices with one entry overwritten are validated up to this size
DefectN == 2

\* longest product of generators formed
MaxWord == 3

Labels == {-1} \cup (2 .. MaxLabel)

Pairs(n) == {e \in Idx(n) \X Idx(n) : e[1] < e[2]}

MatOfPairs(n, f) ==
    [i \in Idx(n) |-> [j \in Idx(n) |->
        IF i = j THEN 1 ELSE IF i < j THEN f[<<i, j>>] ELSE f[<<j, i>>]]]

\* the Coxeter matrices of size n with labels in L
SymMatrices(n, L) == {MatOfPairs(n, f) : f \in [Pairs(n) -> L]}

Mat(rows) == [i \in Idx(Len(rows)) |-> Tup(rows[i + 1])]

\* the matrices of the docstrings
DocMatrices ==
    {Mat(<<<<1, 6, 3>>, <<6, 1, 10>>, <<3, 10, 1>>>>),
     Mat(<<<<1, 3, 3, 3>>, <<3, 1, 3, 2>>, <<3, 3, 1, 2>>, <<3, 2, 2, 1>>>>),
     Mat(<<<<1, 3, 2, 3>>, <<3, 1, 2, 15>>, <<2, 2, 1, 7>>, <<3, 15, 7, 1>>>>),
     Mat(<<<<1, 3, 2>>, <<3, 1, 6>>, <<2, 6, 1>>>>),
     Mat(<<<<1, 3, 2, 2, 2>>, <<3, 1, 3, 2, 2>>, <<2, 3, 1, 3, 3>>,
           <<2, 2, 3, 1, 2>>, <<2, 2, 3, 2, 1>>>>)}


\* trees on 0..n-1 in which every vertex but 0 hangs below a smaller one
RECURSIVE ParentsUpTo(_, _)
ParentsUpTo(k, w) ==
    IF k = 0 THEN {<<>>}
    ELSE {Append(par, p) : par \in ParentsUpTo(k - 1, w),
                           p \in (IF k > w THEN k - w ELSE 0) .. (k - 1)}

\* up to 5 vertices every vertex hangs from any earlier one, above that from
\* one of the two before it
Parents(n) == ParentsUpTo(n - 1, IF n <= 5 THEN n ELSE 2)

\* the tree with parents par and all labels 3, the entry x given the label m
TreeMatrix(n, par, x, m) ==
    [i \in Idx(n) |-> [j \in Idx(n) |->
        IF i = j THEN 1
        ELSE LET lo == IF i < j THEN i ELSE j
                 hi == IF i < j THEN j ELSE i
             IN  IF <<lo, hi>> = x THEN m ELSE IF par[hi] = lo THEN 3 ELSE 2]]

\* M with the entry e overwritten by v, or the entries e and its mirror
Overwrite(M, e, v, both) ==
    IF both THEN [M EXCEPT ![e[1]][e[2]] = v, ![e[2]][e[1]] = v]
    ELSE [M EXCEPT ![e[1]][e[2]] = v]

EdgeLabels == {NoLabel, Infinity} \cup {IntLabel(k) : k \in -2 .. MaxLabel}

\* the graphs on a set of vertices V with edge labels in L
GraphsOn(V, L) ==
    LET P == {e \in V \X V : e[1] < e[2]}
    IN  {[verts |-> V, edges |-> f] : f \in UNION {[E -> L] : E \in SUBSET P}}

\* the vertex names and index-set labels in use
Names == 0 .. 2

TuplesOver(S, n) == UNION {{Tup(t) : t \in [1 .. k -> S]} : k \in 0 .. n}

\* index_set=None, or a tuple of names of any length up to 3
IndexSets == {{}} \cup {{t} : t \in TuplesOver(Names, 3)}

Rings == {"None", "UCF", "QQbar", "QQ"}

\* the matrices constructed with a coefficient domain and an index set
ArgumentMatrices == UNION {SymMatrices(n, Labels) : n \in 1 .. 2}


\* the inputs of a session with several constructions
CacheSizes == 2 .. 2

CacheLabels == {-1, 2, 3}

CacheMatrices == UNION {SymMatrices(n, CacheLabels) : n \in CacheSizes}

CacheGraphs ==
    UNION {GraphsOn(V, {NoLabel, Infinity, IntLabel(-1), IntLabel(1), IntLabel(2), IntLabel(3)}) :
            V \in {{0, 1}}}

CacheIndexSets == {{}, {Tup(<<0, 1>>)}, {Tup(<<1, 0>>)}}

CacheRings == {"None", "UCF", "QQbar"}

\* the groups whose elements are multiplied: their generators have integer entries
ElementSizes == 1 .. 3

ElementMatrices == UNION {SymMatrices(n, {-1, 2, 3}) : n \in ElementSizes}

ElementIndexSets == {{}} \cup {{t} : t \in TuplesOver(Names, 2)}

----------------------------------------------------------------------------
(* State                                                                   *)
(*   cache  the arguments of __classcall__ -> the object made for them     *)
(*   heap   the objects made, by identity 1, 2, ...                        *)
(*   last   the last call: its name, its arguments, what it returned       *)
(*   elt    the group element held: its parent, its matrix, its word length*)
(*   crystal  the crystal held: its elements, index set and operators      *)

Ok(v) == [ok |-> TRUE, err |-> "", val |-> v]

Raise(msg, v) == [ok |-> FALSE, err |-> msg, val |-> v]

\* W.bilinear_form()
BilinearForm(W) == W._bilinear

NoElement == [w |-> 0, mat |-> <<>>, len |-> 0]

NoCrystal == [n |-> 0]

Init ==
    /\ cache = <<>>
    /\ heap = <<>>
    /\ last = [op |-> "none"]
    /\ elt = NoElement
    /\ crystal = NoCrystal

\* UniqueRepresentation.__classcall__: the object cached for the arguments,
\* or a new one made by __init__ and cached
CachedCall(key, call) ==
    IF key \in DOMAIN cache
    THEN /\ last' = [call EXCEPT !.ret = Ok(cache[key])]
         /\ UNCHANGED <<cache, heap>>
    ELSE IF InitRaises(key[1], key[2])
    THEN /\ last' = [call EXCEPT !.ret = Raise("TypeError: unable to convert", 0)]
         /\ UNCHANGED <<cache, heap>>
    ELSE /\ Len(heap) < MaxObjects
         /\ heap' = Append(heap, NewGroup(key[1], key[2], key[3]))
         /\ cache' = cache @@ (key :> Len(heap) + 1)
         /\ last' = [call EXCEPT !.ret = Ok(Len(heap) + 1)]

\* CoxeterMatrixGroup(data, base_ring, index_set)
Construct(form, data, base_ring, index_set) ==
    LET norm == Normalize(form, data, index_set)
        call == [op |-> "CoxeterMatrixGroup", form |-> form, data |-> data,
                 base_ring |-> base_ring, index_set |-> index_set, ret |-> Ok(0)]
    IN  /\ IF ~norm.ok
           THEN /\ last' = [call EXCEPT !.ret = Raise(norm.err, 0)]
                /\ UNCHANGED <<cache, heap>>
           ELSE CachedCall(CacheKey(norm.data, NormalizeRing(base_ring), norm.index_set),
                           call)
        /\ UNCHANGED <<elt, crystal>>

\* W.coxeter_graph()
CallCoxeterGraph(w) ==
    /\ last' = [op |-> "coxeter_graph", w |-> w,
                ret |-> IF CoxeterGraphRaises(heap[w])
                        THEN Raise("IndexError: tuple index out of range", 0)
                        ELSE Ok(CoxeterGraph(heap[w]))]
    /\ UNCHANGED <<cache, heap, elt, crystal>>

\* W.simple_reflection(i)
SimpleReflection(W, i) ==
    IF i \notin RangeOf(W._index_set)
    THEN Raise("ValueError: %s is not in the index set %s", <<i, W._index_set>>)
    ELSE IF IndexOf(W._index_set, i) \notin DOMAIN W.gens
    THEN Raise("IndexError: tuple index out of range", 0)
    ELSE Ok(W.gens[IndexOf(W._index_set, i)])

CallSimpleReflection(w, i) ==
    /\ last' = [op |-> "simple_reflection", w |-> w, i |-> i,
                ret |-> SimpleReflection(heap[w], i)]
    /\ UNCHANGED <<cache, heap, elt, crystal>>

\* W.one()
CallOne(w) ==
    /\ elt' = [w |-> w, mat |-> OneMatrix(NRows(heap[w]._matrix)), len |-> 0]
    /\ last' = [op |-> "one", w |-> w]
    /\ UNCHANGED <<cache, heap, crystal>>

\* elt * W.gen(k)
CallMul(k) ==
    /\ elt.w # 0
    /\ k \in DOMAIN heap[elt.w].gens
    /\ elt.len < MaxWord
    /\ elt' = [elt EXCEPT !.mat = MatMul(@, heap[elt.w].gens[k]), !.len = @ + 1]
    /\ last' = [op |-> "mul", k |-> k]
    /\ UNCHANGED <<cache, heap, crystal>>

\* Element.has_right_descent(i)
HasRightDescent(W, mat, i) ==
    IF i \notin RangeOf(W._index_set)
    THEN Raise("ValueError: tuple.index(x): x not in tuple", 0)
    ELSE IF IndexOf(W._index_set, i) \notin DOMAIN mat
    THEN Raise("IndexError: column index out of range", 0)
    ELSE Ok(AllNonPositive(Column(mat, IndexOf(W._index_set, i))))

CallHasRightDescent(i) ==
    /\ elt.w # 0
    /\ last' = [op |-> "has_right_descent", i |-> i,
                ret |-> HasRightDescent(heap[elt.w], elt.mat, i)]
    /\ UNCHANGED <<cache, heap, elt, crystal>>

----------------------------------------------------------------------------
(* A session: constructions from matrices and graphs, and queries          *)

NewFromMatrix ==
    \E data \in CacheMatrices, base_ring \in CacheRings, index_set \in CacheIndexSets :
        Construct("matrix", data, base_ring, index_set)

NewFromGraph ==
    \E G \in CacheGraphs, base_ring \in CacheRings, index_set \in {{}, {Tup(<<0, 1>>)}} :
        Construct("graph", G, base_ring, index_set)

QueryCoxeterGraph == \E w \in DOMAIN heap : CallCoxeterGraph(w)

\* CoxeterGroup(W.coxeter_graph())
NewFromCoxeterGraph ==
    /\ last.op = "coxeter_graph"
    /\ last.ret.ok
    /\ \E base_ring \in CacheRings : Construct("graph", last.ret.val, base_ring, {})

Next ==
    \/ NewFromMatrix
    \/ NewFromGraph
    \/ QueryCoxeterGraph
    \/ NewFromCoxeterGraph

Spec == Init /\ [][Next]_vars

----------------------------------------------------------------------------
(* One construction in a fresh session, over the larger families           *)

Fresh == heap = <<>> /\ last.op = "none"

\* every Coxeter matrix of size 1..FullN with labels in Labels
InitFromMatrix ==
    /\ Fresh
    /\ \E n \in 1 .. FullN :
          \E f \in [Pairs(n) -> Labels] :
             Construct("matrix", MatOfPairs(n, f), "None", {})

InitFromDoc ==
    /\ Fresh
    /\ \E data \in DocMatrices : Construct("matrix", data, "None", {})

\* a tree with all labels 3 but for one entry (an edge or not) of any label
InitFromTree ==
    /\ Fresh
    /\ \E n \in (FullN + 1) .. TreeN :
          \E par \in Parents(n), x \in Pairs(n), m \in Labels :
             Construct("matrix", TreeMatrix(n, par, x, m), "None", {})

\* a tree with all labels 3 on up to three vertices more
InitFromPlainTree ==
    /\ Fresh
    /\ \E n \in (TreeN + 1) .. (TreeN + 3) :
          \E par \in Parents(n) :
             Construct("matrix", TreeMatrix(n, par, <<0, 0>>, 3), "None", {})

\* a Coxeter matrix of size 1..DefectN with one entry, or an entry and its
\* mirror, overwritten
InitFromDefect ==
    /\ Fresh
    /\ \E n \in 1 .. DefectN :
          \E f \in [Pairs(n) -> Labels], e \in Idx(n) \X Idx(n),
             v \in -1 .. MaxLabel, both \in BOOLEAN :
             Construct("matrix", Overwrite(MatOfPairs(n, f), e, v, both), "None", {})

InitFromGraph ==
    /\ Fresh
    /\ \E G \in UNION {GraphsOn(V, EdgeLabels) : V \in {{0}, {0, 1}, {1, 2}, {0, 1, 2}}} :
          Construct("graph", G, "None", {})

InitWithArguments ==
    /\ Fresh
    /\ \E data \in ArgumentMatrices, base_ring \in Rings, index_set \in IndexSets :
          Construct("matrix", data, base_ring, index_set)

NextInit ==
    \/ InitFromMatrix
    \/ InitFromDoc
    \/ InitFromDefect
    \/ InitFromGraph
    \/ InitWithArguments
    \/ InitFromTree
    \/ InitFromPlainTree

SpecInit == Init /\ [][NextInit]_vars

----------------------------------------------------------------------------
(* The elements of one group                                               *)

ElementGroup ==
    /\ Fresh
    /\ \E data \in ElementMatrices, index_set \in ElementIndexSets :
          Construct("matrix", data, "None", index_set)

ElementOne == \E w \in DOMAIN heap : CallOne(w)

ElementMul == \E k \in Idx(MaxOf(ElementSizes)) : CallMul(k)

ElementHasRightDescent == \E i \in Names : CallHasRightDescent(i)

ElementSimpleReflection == \E w \in DOMAIN heap, i \in Names : CallSimpleReflection(w, i)

NextElement ==
    \/ ElementGroup
    \/ ElementOne
    \/ ElementMul
    \/ ElementHasRightDescent
    \/ ElementSimpleReflection

SpecElement == Init /\ [][NextElement]_vars

----------------------------------------------------------------------------
(* Regular supercrystals.  A crystal B is a record                         *)
(*   n          its elements are 0 .. n-1                                  *)
(*   index_set  the tuple of its indices                                   *)
(*   f, e       for each index i the operator x -> x.f(i), x -> x.e(i);    *)
(*              the value is {} for None and {y} for the element y         *)

Elements(B) == Idx(B.n)

\* x.f(i)
OpF(B, x, i) == B.f[i][x]

\* x.e(i)
OpE(B, x, i) == B.e[i][x]

\* d after the first k indices of `for i in self.index_set(): for x in d:
\* y = x.f(i); if y is not None: d[x][y] = i`
RECURSIVE DigraphDict(_, _)
DigraphDict(B, k) ==
    IF k = 0 THEN [x \in Elements(B) |-> <<>>]
    ELSE LET d == DigraphDict(B, k - 1)
             i == B.index_set[k - 1]
         IN  [x \in Elements(B) |->
                 IF OpF(B, x, i) = {} THEN d[x]
                 ELSE LET y == CHOOSE z \in OpF(B, x, i) : TRUE
                      IN  (y :> i) @@ d[x]]

\* DiGraph(d, format='dict_of_dicts'): the vertices are the keys of d, and
\* there is an edge x -> y of label d[x][y] for every key y of d[x]
DiGraph(d) ==
    [vertices |-> DOMAIN d,
     edges |-> {<<x, y, d[x][y]>> : <<x, y>> \in
                   {p \in (DOMAIN d) \X (DOMAIN d) : p[2] \in DOMAIN d[p[1]]}}]

\* B.digraph()
Digraph(B) == DiGraph(DigraphDict(B, Size(B.index_set)))

\* the vertices joined to S by edges taken in either direction
RECURSIVE WeakClosure(_, _)
WeakClosure(G, S) ==
    LET T == S \cup {v \in G.vertices :
                        \E e \in G.edges : \/ e[1] \in S /\ e[2] = v
                                           \/ e[2] \in S /\ e[1] = v}
    IN  IF T = S THEN S ELSE WeakClosure(G, T)

\* the sets of a family in a list: the larger first, and of two of the same
\* size the one of the smaller least vertex first
RECURSIVE LargestFirst(_)
LargestFirst(CS) ==
    IF CS = {} THEN <<>>
    ELSE LET c == CHOOSE a \in CS : \A b \in CS :
                     \/ Cardinality(a) > Cardinality(b)
                     \/ Cardinality(a) = Cardinality(b) /\ MinOf(a) <= MinOf(b)
         IN  <<c>> \o LargestFirst(CS \ {c})

\* G.connected_components(): the weakly connected components of the digraph
GraphConnectedComponents(G) ==
    LargestFirst({WeakClosure(G, {v}) : v \in G.vertices})

\* x.is_highest_weight(): no e(i) of the index set applies to x
IsHighestWeight(B, x) ==
    \A k \in DOMAIN B.index_set : OpE(B, x, B.index_set[k]) = {}

\* B.connected_components_generators()
ConnectedComponentsGenerators(B) ==
    LET comps == GraphConnectedComponents(Digraph(B))
    IN  [k \in DOMAIN comps |->
            SortedTuple({g \in comps[k] : IsHighestWeight(B, g)})]

\* the elements reached from S by the operators e(i) and f(i)
RECURSIVE OperatorClosure(_, _)
OperatorClosure(B, S) ==
    LET T == S \cup UNION {OpF(B, x, B.index_set[k]) \cup OpE(B, x, B.index_set[k]) :
                              x \in S, k \in DOMAIN B.index_set}
    IN  IF T = S THEN S ELSE OperatorClosure(B, T)

\* B.subcrystal(generators=mg): the elements of the subcrystal
Subcrystal(B, mg) == OperatorClosure(B, RangeOf(mg))

\* B.connected_components()
CrystalConnectedComponents(B) ==
    LET gens == ConnectedComponentsGenerators(B)
    IN  [k \in DOMAIN gens |-> Subcrystal(B, gens[k])]

MaxElements == 3

CrystalIndexSet == Tup(<<1, 2>>)

\* the partial one-to-one operators on 0 .. n-1
PartialOperators(n) ==
    {g \in [Idx(n) -> {{}} \cup {{y} : y \in Idx(n)}] :
        \A x1, x2 \in Idx(n) : x1 # x2 /\ g[x1] = g[x2] => g[x1] = {}}

\* y.e(i) = x exactly when x.f(i) = y
RaisingOf(n, g) == [y \in Idx(n) |-> {x \in Idx(n) : g[x] = {y}}]

\* the crystal on 0 .. n-1 of lowering operators g[1], g[2]
CrystalOf(n, g) ==
    [n |-> n, index_set |-> CrystalIndexSet, f |-> g,
     e |-> [i \in DOMAIN g |-> RaisingOf(n, g[i])]]

MakeCrystal ==
    /\ crystal.n = 0
    /\ \E n \in 1 .. MaxElements :
          \E g1 \in PartialOperators(n), g2 \in PartialOperators(n) :
             crystal' = CrystalOf(n, (1 :> g1) @@ (2 :> g2))
    /\ last' = [op |-> "crystal"]
    /\ UNCHANGED <<cache, heap, elt>>

CallDigraph ==
    /\ crystal.n # 0
    /\ last' = [op |-> "digraph", ret |-> Digraph(crystal)]
    /\ UNCHANGED <<cache, heap, elt, crystal>>

CallConnectedComponentsGenerators ==
    /\ crystal.n # 0
    /\ last' = [op |-> "connected_components_generators",
                ret |-> ConnectedComponentsGenerators(crystal)]
    /\ UNCHANGED <<cache, heap, elt, crystal>>

CallConnectedComponents ==
    /\ crystal.n # 0
    /\ last' = [op |-> "connected_components",
                ret |-> CrystalConnectedComponents(crystal)]
    /\ UNCHANGED <<cache, heap, elt, crystal>>

NextCrystal ==
    \/ MakeCrystal
    \/ CallDigraph
    \/ CallConnectedComponentsGenerators
    \/ CallConnectedComponents

SpecCrystal == Init /\ [][NextCrystal]_vars

----------------------------------------------------------------------------
(* epsilon(i) and phi(i): the loop, one pass at a time.  A running call is *)
(* held in last: self, i, the loop variables x and string_length, done     *)
(* once it returned.  string_length is kept up to MaxCount, a count that   *)
(* no returning call on the crystals drawn here reaches.                   *)

MaxChain == 4

MaxCount == 5

\* string_length = 0; x = self
StartString(op, self, i) ==
    [op |-> op, self |-> self, i |-> i, x |-> self, string_length |-> 0,
     done |-> FALSE]

\* x = x.e(i) in epsilon, x = x.f(i) in phi
StringOperator(B, op, x, i) == IF op = "epsilon" THEN OpE(B, x, i) ELSE OpF(B, x, i)

\* a pass that counts the failed application too
PassCountingNone(B, call) ==
    LET y == StringOperator(B, call.op, call.x, call.i)
    IN  IF y = {} THEN [call EXCEPT !.done = TRUE, !.string_length = @ + 1]
        ELSE [call EXCEPT !.x = CHOOSE z \in y : TRUE, !.string_length = @ + 1]

\* one pass of `while True`: return string_length if x is None, else count
StringPass(B, call) ==
    LET y == StringOperator(B, call.op, call.x, call.i)
    IN  IF y = {} THEN [call EXCEPT !.done = TRUE]
        ELSE [call EXCEPT !.x = CHOOSE z \in y : TRUE,
                          !.string_length = IF @ < MaxCount THEN @ + 1 ELSE @]

\* the crystal on 0 .. n-1 with the lowering operator g for the index i and
\* no arrow of the other index
MakeString ==
    /\ crystal.n = 0
    /\ \E n \in 1 .. MaxChain :
          \E g \in PartialOperators(n), i \in RangeOf(CrystalIndexSet) :
             crystal' = CrystalOf(n, [j \in RangeOf(CrystalIndexSet) |->
                                         IF j = i THEN g ELSE [x \in Idx(n) |-> {}]])
    /\ last' = [op |-> "crystal"]
    /\ UNCHANGED <<cache, heap, elt>>

Idle == last.op = "crystal" \/ (last.op \in {"epsilon", "phi"} /\ last.done)

\* x.epsilon(i)
CallEpsilon ==
    /\ crystal.n # 0
    /\ Idle
    /\ \E self \in Elements(crystal), i \in RangeOf(crystal.index_set) :
          last' = StartString("epsilon", self, i)
    /\ UNCHANGED <<cache, heap, elt, crystal>>

\* x.phi(i)
CallPhi ==
    /\ crystal.n # 0
    /\ Idle
    /\ \E self \in Elements(crystal), i \in RangeOf(crystal.index_set) :
          last' = StartString("phi", self, i)
    /\ UNCHANGED <<cache, heap, elt, crystal>>

StringStep ==
    /\ last.op \in {"epsilon", "phi"}
    /\ ~last.done
    /\ last' = StringPass(crystal, last)
    /\ UNCHANGED <<cache, heap, elt, crystal>>

NextString ==
    \/ MakeString
    \/ CallEpsilon
    \/ CallPhi
    \/ StringStep

SpecString == Init /\ [][NextString]_vars

\* a call that was started goes on running
SpecStringFair == SpecString /\ WF_vars(StringStep)


----------------------------------------------------------------------------
(* The classification of the finite Coxeter groups, read off the diagram:  *)
(* A_n, B_n, D_n, E_6, E_7, E_8, F_4, H_3, H_4, I_2(m)                     *)

DiagramEdge(M, i, j) == i # j /\ M[i][j] \notin {1, 2}

\* the vertices of V joined to S inside V
RECURSIVE DiagramClosure(_, _, _)
DiagramClosure(M, S, V) ==
    LET T == S \cup {j \in V : \E i \in S : DiagramEdge(M, i, j)}
    IN  IF T = S THEN S ELSE DiagramClosure(M, T, V)

DiagramComponents(M) == {DiagramClosure(M, {v}, DOMAIN M) : v \in DOMAIN M}

DiagramEdges(M, C) == {e \in C \X C : e[1] < e[2] /\ DiagramEdge(M, e[1], e[2])}

Degree(M, C, v) == Cardinality({u \in C : DiagramEdge(M, v, u)})

\* a path with labels 3 but for the one edge e of label m >= 4
LabelledPathType(M, C, e) ==
    LET n == Cardinality(C)
        m == M[e[1]][e[2]]
        atEnd == Degree(M, C, e[1]) = 1 \/ Degree(M, C, e[2]) = 1
    IN  \/ n = 2                              \* I_2(m)
        \/ m = 4 /\ atEnd                     \* B_n
        \/ m = 4 /\ n = 4 /\ ~atEnd           \* F_4
        \/ m = 5 /\ n \in {3, 4} /\ atEnd     \* H_3, H_4

\* a tree with labels 3 and the one branch vertex c
BranchedType(M, C, c) ==
    LET arm(u) == Cardinality(DiagramClosure(M, {u}, C \ {c}))
        N == {u \in C : DiagramEdge(M, c, u)}
    IN  \E u1, u2, u3 \in N :
           /\ Cardinality({u1, u2, u3}) = 3
           /\ arm(u1) = 1
           /\ \/ arm(u2) = 1                                \* D_n
              \/ arm(u2) = 2 /\ arm(u3) \in {2, 3, 4}       \* E_6, E_7, E_8

FiniteType(M, C) ==
    LET E == DiagramEdges(M, C)
        heavy == {e \in E : M[e[1]][e[2]] # 3}
        branch == {v \in C : Degree(M, C, v) >= 3}
    IN  /\ Cardinality(E) = Cardinality(C) - 1
        /\ \A e \in E : M[e[1]][e[2]] >= 3
        /\ \A v \in C : Degree(M, C, v) <= 3
        /\ \/ heavy = {} /\ branch = {}                     \* A_n
           \/ /\ branch = {}
              /\ \E e \in heavy : heavy = {e} /\ LabelledPathType(M, C, e)
           \/ /\ heavy = {}
              /\ \E c \in branch : branch = {c} /\ BranchedType(M, C, c)

AllFiniteType(M) == \A C \in DiagramComponents(M) : FiniteType(M, C)

\* C1: the finiteness flag of every constructed group is true exactly when
\* every connected component of its Coxeter diagram is of one of the types
\* A_n, B_n, D_n, E_6, E_7, E_8, F_4, H_3, H_4, I_2(m)
FlagIsClassification ==
    \A w \in DOMAIN heap : heap[w].finite = AllFiniteType(heap[w]._matrix)

\* a group of type E_8 has been constructed and flagged finite
FlaggedE8 ==
    \E w \in DOMAIN heap :
        LET M == heap[w]._matrix
        IN  /\ heap[w].finite
            /\ NRows(M) = 8
            /\ DiagramComponents(M) = {DOMAIN M}
            /\ \E c \in DOMAIN M : Degree(M, DOMAIN M, c) = 3
            /\ \A c \in DOMAIN M :
                  Cardinality({u \in DOMAIN M :
                      DiagramEdge(M, c, u) /\ Degree(M, DOMAIN M, u) = 1}) <= 1

----------------------------------------------------------------------------
(* The example M = [[1,6,3],[6,1,10],[3,10,1]]                             *)

DocTriangle == Mat(<<<<1, 6, 3>>, <<6, 1, 10>>, <<3, 10, 1>>>>)

\* C2 as stated: the group constructed from [[1,6,3],[6,1,10],[3,10,1]] is
\* flagged finite
DocTriangleFlaggedFinite ==
    \A w \in DOMAIN heap : heap[w]._matrix = DocTriangle => heap[w].finite

\* C2: the group constructed from [[1,6,3],[6,1,10],[3,10,1]] is flagged
\* not finite: its diagram is a triangle, which is no finite-type diagram
DocTriangleFlaggedInfinite ==
    \A w \in DOMAIN heap : heap[w]._matrix = DocTriangle => ~heap[w].finite

\* the group of [[1,6,3],[6,1,10],[3,10,1]] has been constructed
DocTriangleConstructed ==
    /\ last.op = "CoxeterMatrixGroup"
    /\ last.data = DocTriangle
    /\ last.ret.ok
    /\ heap[last.ret.val]._matrix = DocTriangle

----------------------------------------------------------------------------
(* Canonical construction                                                  *)

\* the vertex of V with k smaller ones
VertexAt(V, k) == CHOOSE v \in V : Cardinality({u \in V : u < v}) = k

\* the Coxeter matrix a diagram graph stands for: rows in the order of the
\* vertices, unlabelled edge = 3, infinity = -1, no edge = 2
DiagramMatrix(G) ==
    LET n == Cardinality(G.verts)
        entry(u, v) ==
            LET e == IF u < v THEN <<u, v>> ELSE <<v, u>>
            IN  IF u = v THEN 1
                ELSE IF e \notin DOMAIN G.edges THEN 2
                ELSE IF G.edges[e].kind = "None" THEN 3
                ELSE IF G.edges[e].kind = "oo" THEN -1
                ELSE G.edges[e].val
    IN  [i \in 0 .. (n - 1) |-> [j \in 0 .. (n - 1) |->
            entry(VertexAt(G.verts, i), VertexAt(G.verts, j))]]

\* the (Coxeter matrix, coefficient domain, index set) a call stands for
CanonicalTriple(call) ==
    LET M == IF call.form = "graph" THEN DiagramMatrix(call.data) ELSE call.data
        R == IF call.base_ring = "None" THEN "UCF" ELSE call.base_ring
        I == IF call.index_set # {} THEN CHOOSE t \in call.index_set : TRUE
             ELSE IF call.form = "graph"
             THEN [k \in 0 .. (Cardinality(call.data.verts) - 1) |->
                      VertexAt(call.data.verts, k)]
             ELSE [k \in DOMAIN call.data |-> k]
    IN  <<M, R, I>>

\* C3: every successful construction call returns the object registered
\* for its (Coxeter matrix, coefficient domain, index set); registrations
\* are never changed, and no object is registered for two triples.  So two
\* calls return the identical object exactly when their triples are equal.
ConstructionIsCanonical ==
    [][(last'.op = "CoxeterMatrixGroup" /\ last'.ret.ok) =>
        /\ CanonicalTriple(last') \in DOMAIN cache'
        /\ cache'[CanonicalTriple(last')] = last'.ret.val
        /\ \A k \in DOMAIN cache : k \in DOMAIN cache' /\ cache'[k] = cache[k]
        /\ \A j, k \in DOMAIN cache' : cache'[j] = cache'[k] => j = k]_vars

\* a graph, with the default domain, has returned the object made first,
\* after a second object was made
GraphCallReturnedEarlierObject ==
    /\ last.op = "CoxeterMatrixGroup"
    /\ last.form = "graph"
    /\ last.base_ring = "None"
    /\ last.ret.ok
    /\ last.ret.val = 1
    /\ Len(heap) = 2

----------------------------------------------------------------------------
(* Matrix -> diagram graph -> matrix                                       *)

\* C4 as stated: constructing from W.coxeter_graph(), over the coefficient
\* domain of W, returns W, and the matrix read back from the graph is the
\* matrix of W
GraphRoundTrip ==
    [][(/\ last.op = "coxeter_graph"
        /\ last.ret.ok
        /\ last'.op = "CoxeterMatrixGroup"
        /\ last'.form = "graph"
        /\ last'.data = last.ret.val
        /\ last'.index_set = {}
        /\ last'.base_ring = heap[last.w].base_ring)
       => /\ last'.ret.ok
          /\ last'.ret.val = last.w
          /\ DiagramMatrix(last.ret.val) = heap[last.w]._matrix]_vars

----------------------------------------------------------------------------
(* Validation                                                              *)

ValidCoxeterMatrix(M) ==
    \A i, j \in DOMAIN M :
        /\ j \in DOMAIN M[i]
        /\ M[i][j] = M[j][i]
        /\ i = j => M[i][j] = 1
        /\ i # j => (M[i][j] >= 2 \/ M[i][j] = -1)

InvalidInput(call) ==
    IF call.form = "graph"
    THEN \E e \in DOMAIN call.data.edges :
            LET m == call.data.edges[e]
            IN  m.kind = "int" /\ m.val <= 1 /\ m.val # -1
    ELSE ~ValidCoxeterMatrix(call.data)

\* C5: a construction call on an invalid matrix or graph fails and leaves
\* the objects and the registrations as they were, and the matrix of every
\* constructed group is symmetric with unit diagonal and off-diagonal
\* entries >= 2 or -1
NoInvalidGroup ==
    [][last'.op = "CoxeterMatrixGroup" =>
        /\ InvalidInput(last') =>
              (~last'.ret.ok /\ heap' = heap /\ cache' = cache)
        /\ \A w \in DOMAIN heap' : ValidCoxeterMatrix(heap'[w]._matrix)]_vars

\* a construction from a symmetric matrix with an off-diagonal 1 has failed
OffDiagonalOneRejected ==
    /\ last.op = "CoxeterMatrixGroup"
    /\ last.form = "matrix"
    /\ NRows(last.data) = 2
    /\ last.data[0][1] = 1
    /\ last.data[1][0] = 1
    /\ last.data[0][0] = 1
    /\ last.data[1][1] = 1
    /\ ~last.ret.ok
    /\ heap = <<>>
    /\ cache = <<>>

----------------------------------------------------------------------------
(* Index set                                                               *)

\* C6 as stated: the index set of every constructed group has as many
\* labels as the matrix has rows, pairwise distinct
IndexSetMatchesRows ==
    \A w \in DOMAIN heap :
        LET I == heap[w]._index_set
        IN  /\ DOMAIN I = DOMAIN heap[w]._matrix
            /\ \A j, k \in DOMAIN I : I[j] = I[k] => j = k

----------------------------------------------------------------------------
(* Generators and bilinear form                                            *)

\* val(m) = 2cos(pi/m), val(-1) = 2
ReflectionValue(m) ==
    IF m = -1 THEN RInt(2)
    ELSE IF m = 1 THEN RInt(-2)
    ELSE IF m = 2 THEN RInt(0)
    ELSE IF m = 3 THEN RInt(1)
    ELSE TwoCos(m)

\* C7 as stated: generator i is the identity but for column i, which holds
\* val(M[j][i]) at every row j # i
GeneratorsPerturbColumn ==
    \A w \in DOMAIN heap :
        LET M == heap[w]._matrix
        IN  \A i, r, c \in DOMAIN M :
               heap[w].gens[i][r][c] =
                   IF c = i /\ r # i THEN ReflectionValue(M[r][i])
                   ELSE IF r = c THEN RInt(1) ELSE RInt(0)

\* C7: generator i is the identity but for row i, which holds val(M[i][j])
\* at every column j # i and -1 (= 1 + val(1)) on the diagonal
GeneratorsPerturbRow ==
    \A w \in DOMAIN heap :
        LET M == heap[w]._matrix
        IN  \A i, r, c \in DOMAIN M :
               heap[w].gens[i][r][c] =
                   IF r = i
                   THEN (IF c = i THEN RInt(-1) ELSE ReflectionValue(M[i][c]))
                   ELSE IF r = c THEN RInt(1) ELSE RInt(0)

\* a group of rank 3 with the labels 3 and 4 has its generators
GeneratorsOfB3Built ==
    \E w \in DOMAIN heap :
        /\ heap[w]._matrix = Mat(<<<<1, 3, 2>>, <<3, 1, 4>>, <<2, 4, 1>>>>)
        /\ heap[w].gens[1][1] = Tup(<<RInt(1), RInt(-1), TwoCos(4)>>)

\* C8: the bilinear form is symmetric with unit diagonal; off the diagonal
\* B[i][j] = -val(M[i][j])/2, which is 0 exactly for the label 2, -1 for
\* the label infinity, and lies in [-1, 1]
BilinearFormLaw ==
    \A w \in DOMAIN heap :
        LET M == heap[w]._matrix
            B == heap[w]._bilinear
        IN  \A i, j \in DOMAIN M :
               /\ B[i][j] = B[j][i]
               /\ i = j => B[i][j] = RInt(1)
               /\ i # j =>
                     /\ B[i][j] = RDivInt(RNeg(ReflectionValue(M[i][j])), 2)
                     /\ (B[i][j] = RInt(0)) <=> (M[i][j] = 2)
                     /\ M[i][j] = -1 => B[i][j] = RInt(-1)
                     /\ RLeq(RInt(-1), B[i][j])
                     /\ RLeq(B[i][j], RInt(1))

\* a group with the labels 2, 5 and infinity has its bilinear form
BilinearFormMixedLabels ==
    \E w \in DOMAIN heap :
        /\ heap[w]._matrix = Mat(<<<<1, 5, 2>>, <<5, 1, -1>>, <<2, -1, 1>>>>)
        /\ heap[w]._bilinear[0][1] = [p |-> 0, q |-> -1, m |-> 5, d |-> 2]

----------------------------------------------------------------------------
(* Queries by label                                                        *)

\* the position of the label x in the index set I
PositionOf(I, x) ==
    CHOOSE k \in DOMAIN I : I[k] = x /\ \A j \in DOMAIN I : I[j] = x => k <= j

Labelled(W, x) == \E k \in DOMAIN W._index_set : W._index_set[k] = x

\* C9 as stated: has_right_descent(i), i in the index set, returns whether
\* every entry of the column at the position of i is <= 0, which is false
\* for the identity
DescentIsColumnSign ==
    (last.op = "has_right_descent" /\ Labelled(heap[elt.w], last.i)) =>
        LET k == PositionOf(heap[elt.w]._index_set, last.i)
        IN  /\ last.ret.ok
            /\ k \in DOMAIN elt.mat
            /\ last.ret.val = (\A r \in DOMAIN elt.mat : RLeqZero(elt.mat[r][k]))
            /\ elt.len = 0 => last.ret.val = FALSE

\* C10 as stated: simple_reflection(i) returns the generator at the position
\* of i when i is in the index set, and otherwise fails naming i
SimpleReflectionByLabel ==
    last.op = "simple_reflection" =>
        LET W == heap[last.w]
        IN  IF Labelled(W, last.i)
            THEN /\ last.ret.ok
                 /\ PositionOf(W._index_set, last.i) \in DOMAIN W.gens
                 /\ last.ret.val = W.gens[PositionOf(W._index_set, last.i)]
            ELSE /\ ~last.ret.ok
                 /\ last.ret.val[1] = last.i


----------------------------------------------------------------------------
(* The crystal graph                                                       *)

\* the edges x -> y of label i with x.f(i) = y
OperatorEdges(B) ==
    {t \in Elements(B) \X Elements(B) \X RangeOf(B.index_set) :
        OpF(B, t[1], t[3]) = {t[2]}}

\* C12: digraph() returns the graph on the crystal's elements whose edges
\* are exactly the x -> y of label i with x.f(i) = y, one edge for every
\* index that sends x to y
DigraphIsOperatorGraph ==
    last.op = "digraph" =>
        /\ last.ret.vertices = Elements(crystal)
        /\ last.ret.edges = OperatorEdges(crystal)

----------------------------------------------------------------------------
(* The connected components of a crystal                                   *)

\* x and y are joined by one application of an operator
Joined(B, x, y) ==
    \E i \in RangeOf(B.index_set) :
        \/ OpF(B, x, i) = {y} \/ OpF(B, y, i) = {x}
        \/ OpE(B, x, i) = {y} \/ OpE(B, y, i) = {x}

\* the sets of elements S that are closed under Joined
JoinClosed(B) ==
    {S \in SUBSET Elements(B) :
        \A x \in S, y \in Elements(B) : Joined(B, x, y) => y \in S}

\* the weakly connected components: the least nonempty closed sets
WeakComponents(B) ==
    {S \in JoinClosed(B) \ {{}} :
        \A T \in JoinClosed(B) \ {{}} : T \subseteq S => T = S}

----------------------------------------------------------------------------
(* String lengths                                                          *)

\* x after k applications of the operator of the call, {} once one failed
RECURSIVE Applied(_, _, _)
Applied(B, call, k) ==
    IF k = 0 THEN {call.self}
    ELSE LET y == Applied(B, call, k - 1)
         IN  IF y = {} THEN {}
             ELSE LET z == CHOOSE w \in y : TRUE
                  IN  IF call.op = "phi" THEN B.f[call.i][z] ELSE B.e[call.i][z]

\* C13: a call of phi(i) or epsilon(i) that returned, returned the number k
\* of times f(i), resp. e(i), applies in succession from x: the k-th
\* application gives an element and the next one None; it is 0 exactly when
\* the first application gives None
StringLengthCounts ==
    last.op \in {"epsilon", "phi"} /\ last.done =>
        /\ last.string_length \in Nat
        /\ Applied(crystal, last, last.string_length) # {}
        /\ Applied(crystal, last, last.string_length + 1) = {}
        /\ last.string_length = 0 <=> Applied(crystal, last, 1) = {}

StringOfThreeReturned ==
    /\ last.op = "phi" /\ last.done /\ last.string_length = 3
    /\ OpF(crystal, last.self, last.i) # {}

----------------------------------------------------------------------------
(* The generators as reflections                                           *)

RECURSIVE MatPower(_, _)
MatPower(A, k) ==
    IF k = 0 THEN OneMatrix(NRows(A)) ELSE MatMul(MatPower(A, k - 1), A)

\* the labels whose generators have integer entries
IntegerLabels(M) == \A i, j \in DOMAIN M : M[i][j] \in {-1, 1, 2, 3}

\* C14: the generators of the group a construction returns are
\* involutions, and for a label m in {2, 3} the
\* product sigma_i sigma_j has order exactly m: it commutes for the label
\* 2 and satisfies the braid relation for the label 3
CoxeterRelations ==
    last.op = "CoxeterMatrixGroup" /\ last.ret.ok =>
        LET M == heap[last.ret.val]._matrix
            s == heap[last.ret.val].gens
            one == OneMatrix(NRows(M))
        IN  ValidCoxeterMatrix(M) /\ IntegerLabels(M) =>
               /\ \A i \in DOMAIN M : MatMul(s[i], s[i]) = one
               /\ \A i, j \in DOMAIN M :
                     i # j /\ M[i][j] \in {2, 3} =>
                        /\ MatPower(MatMul(s[i], s[j]), M[i][j]) = one
                        /\ \A k \in 1 .. (M[i][j] - 1) :
                              MatPower(MatMul(s[i], s[j]), k) # one
                        /\ M[i][j] = 2 => MatMul(s[i], s[j]) = MatMul(s[j], s[i])
                        /\ M[i][j] = 3 =>
                              MatMul(MatMul(s[i], s[j]), s[i])
                                  = MatMul(MatMul(s[j], s[i]), s[j])

\* the group of type A3, with labels 2 and 3, has its generators
RelationsOfA3 ==
    /\ last.op = "CoxeterMatrixGroup" /\ last.ret.ok
    /\ heap[last.ret.val]._matrix = Mat(<<<<1, 3, 2>>, <<3, 1, 3>>, <<2, 3, 1>>>>)
    /\ MatPower(MatMul(heap[last.ret.val].gens[1], heap[last.ret.val].gens[2]), 3)
           = OneMatrix(3)

\* the coordinates of alpha_j - 2 * b * alpha_i
ReflectedRoot(n, i, j, b) ==
    [r \in Idx(n) |->
        RAdd(IF r = j THEN ROne ELSE RZero,
             IF r = i THEN RMul(RInt(-2), b) ELSE RZero)]

\* C15: column j of the generator sigma_i is alpha_j - 2 B[i][j] alpha_i,
\* with B the matrix returned by bilinear_form()
GeneratorsReflect ==
    \A w \in DOMAIN heap :
        LET W == heap[w]
            B == BilinearForm(W)
            n == NRows(W._matrix)
        IN  \A i, j \in DOMAIN W._matrix :
               Column(W.gens[i], j) = ReflectedRoot(n, i, j, B[i][j])

\* a group with the labels 3, 5 and infinity has its generators
ReflectionsMixedLabels ==
    \E w \in DOMAIN heap :
        /\ heap[w]._matrix = Mat(<<<<1, 5, 3>>, <<5, 1, -1>>, <<3, -1, 1>>>>)
        /\ Column(heap[w].gens[1], 0) = Tup(<<ROne, TwoCos(5), RZero>>)

----------------------------------------------------------------------------
(* Descents and length                                                     *)

\* the elements of length 0, 1, .., k: those of length k are the products
\* of an element of length k - 1 and a generator that are not shorter
RECURSIVE Spheres(_, _)
Spheres(s, k) ==
    IF k = 0 THEN <<{OneMatrix(Size(s))}>>
    ELSE LET p == Spheres(s, k - 1)
         IN  Append(p, {MatMul(m, s[g]) : m \in p[k], g \in DOMAIN s}
                           \ UNION RangeOf(p))

\* for each Coxeter matrix drawn, its elements of length up to MaxWord + 1
WordLengths ==
    Tabulate([M \in ElementMatrices |-> Spheres(Gens(M), MaxWord + 1)],
             ElementMatrices)

\* the length of the shortest word in the generators for the matrix m
Length(M, m) == CHOOSE k \in 0 .. (MaxWord + 1) : m \in WordLengths[M][k + 1]

\* every entry <= 0 or every entry >= 0, and some entry not 0
OneSigned(col) ==
    /\ AllNonPositive(col) \/ \A r \in DOMAIN col : RLeq(RZero, col[r])
    /\ \E r \in DOMAIN col : col[r] # RZero

\* C16 as stated: has_right_descent(i), i in the index set, returns whether
\* w * s_i is shorter than w, and every column of w is nonzero and has
\* entries of one sign
DescentIsLengthDecrease ==
    (last.op = "has_right_descent" /\ Labelled(heap[elt.w], last.i)) =>
        LET W == heap[elt.w]
            k == PositionOf(W._index_set, last.i)
        IN  /\ last.ret.ok
            /\ k \in DOMAIN W.gens
            /\ last.ret.val = (Length(W._matrix, MatMul(elt.mat, W.gens[k]))
                                   < Length(W._matrix, elt.mat))
            /\ \A c \in DOMAIN elt.mat : OneSigned(Column(elt.mat, c))

----------------------------------------------------------------------------
(* Termination of epsilon and phi                                          *)

Running == last.op \in {"epsilon", "phi"} /\ ~last.done

Returned == last.op \in {"epsilon", "phi"} /\ last.done

====
